---- MODULE Spec2Model ----
(***************************************************************************)
(* Model of projectile/Projectile_Animation.ipynb: the projectile physics  *)
(* (get_t_max, compute_xy), the construction of the signac data space      *)
(* (first job, parameter study, aggregation, velocity migration, velocity  *)
(* x theta expansion), the FlowProject workflow written to project.py      *)
(* (compute_trajectory, plot_trajectory, animate) with the run commands    *)
(* the notebook issues, the export / import of the workspace, the removal  *)
(* of videos before the scheduler is used, and the furthest-distance cell  *)
(* run on the workspace of each stage.                                     *)
(*                                                                         *)
(* Numbers are fixed point: angles in milliradians, sines and cosines      *)
(* scaled by 10^5, times in milliseconds, lengths in decimetres, and g in  *)
(* cm/s^2.  Every intermediate value stays below 2^31.                     *)
(***************************************************************************)
EXTENDS Integers, Sequences, FiniteSets, TLC

VARIABLES
    pc,         \* the notebook cell that runs next
    in_v,       \* velocity given to the initial experiment
    in_theta,   \* launch angle given to the initial experiment
    t_max,      \* result of get_t_max, per definition of the function
    xy,         \* result of compute_xy(t_max, v, theta)
    project,    \* the workspace: job id -> [sp, doc, files]
    job,        \* the state point of the job handle held by the notebook
    todo,       \* what the running loop has still to visit
    thetas,     \* the set built by the expansion cell
    x_max,      \* aggregation loop: largest distance so far
    theta_max,  \* aggregation loop: its angle, or None
    script,     \* which version of project.py is on disk (0: none)
    cmd,        \* the project.py command line last started
    running,    \* whether that command is still running
    queue,      \* the job-operations of the runner's current pass, in order
    nxt,        \* index in queue of the next job-operation to hand out
    inflight,   \* job-operations being executed: <<job id, operation, step>>
    ran,        \* job-operations this run has started
    snap,       \* the workspace as it was when the run (or the tar export) started
    archive_dir,\* the directory archive_dir: path -> exported job directory
    archive_tar \* the tarball archive.tar.gz: path -> exported job directory

nbvars == <<in_v, in_theta, t_max, xy, job, todo, thetas, x_max, theta_max>>

flowvars == <<script, cmd, running, queue, nxt, inflight, ran, snap>>

archvars == <<archive_dir, archive_tar>>

vars == <<pc, project, nbvars, flowvars, archvars>>

----------------------------------------------------------------------------
(* Bounds of the explored inputs *)

\* velocities tried in the initial experiment: 500, 1000, ..., 500 * MaxVK
MaxVK == 6
\* angles tried: 0, 0.1, ..., 0.1 * MaxGrid rad, plus 20, 45 and 80 degrees
MaxGrid == 15

----------------------------------------------------------------------------
(* Fixed-point arithmetic standing for numpy's floating point *)

\* g = 9.81 m/s^2, in cm/s^2
G100 == 981
\* step of the theta slider, 0.1 rad, in mrad
SliderStep == 100

\* Python's None where an angle is expected: no angle is negative
None == -1

\* sin and cos by their Taylor series; angle in mrad, result scaled by 10^5
RECURSIVE Series(_, _, _)
Series(th, n, term) ==
    IF term = 0 THEN 0
    ELSE term - Series(th, n + 2,
                       ((((term * th) \div 1000) * th) \div 1000) \div ((n + 1) * (n + 2)))

Sin(th) == Series(th, 1, th * 100)

Cos(th) == Series(th, 0, 100 * 1000)

\* d * np.pi / 180, in mrad
Deg2Rad_raw(d) == d
Deg2Rad(d) == (d * 31416) \div 1800

\* pi / 2 in mrad, rounded up
HalfPi == Deg2Rad(90) + 1

\* a (scaled by 10^5, m/s) times t (ms), in dm: a * t / 10^7 without overflow
FMulAbs(a, t) ==
    LET aH == a \div 10000
        aL == a % 10000
        tH == t \div 1000
        tL == t % 1000
    IN  aH * tH + (aH * tL * 10 + aL * tH + (aL * tL) \div 1000) \div 10000

FMul(a, t) == IF a < 0 THEN 0 - FMulAbs(0 - a, t) ELSE FMulAbs(a, t)


----------------------------------------------------------------------------
(* The physics: notebook cell 3 and the copies written to project.py *)

get_t_max_half(v, th) == (v * Sin(th)) \div G100
get_t_max(v, th) == (2 * v * Sin(th)) \div G100

get_t_max_v1(v, th) == (2 * v * Sin(th)) \div G100

get_t_max_v2(v, th) == (2 * v * Sin(th)) \div G100

get_t_max_v3(v, th) == (2 * v * Sin(th)) \div G100

\* the pair (x, y) at time t
compute_xy_sin(t, v, th) ==
    <<FMul(v * Sin(th), t), FMul(v * Sin(th), t) - FMul((G100 * t) \div 2, t)>>
compute_xy(t, v, th) ==
    <<FMul(v * Cos(th), t), FMul(v * Sin(th), t) - FMul((G100 * t) \div 2, t)>>

\* project.py's own copy, used by compute_trajectory
compute_xy_py(t, v, th) ==
    <<FMul(v * Cos(th), t), FMul(v * Sin(th), t) - FMul((G100 * t) \div 2, t)>>

----------------------------------------------------------------------------
(* The data space *)

\* thetas of the parameter study, in mrad
StudyThetas == <<400, 625, 850, 1300>>

velocities == <<2000, 2500, 3000>>

\* the velocity hard-coded by the cells that precede the schema migration
V0 == 2000

EmptyFn == [k \in {} |-> 0]

\* the job id: a hash of the state point (equal state points, equal ids)
JobId(sp) == sp.theta * 10000 + (IF "velocity" \in DOMAIN sp THEN sp.velocity ELSE 0)

\* project.open_job(statepoint): a handle, nothing is written
open_job(sp) == sp

\* job.init(): creates the job directory unless it exists
init_reset(P, sp) == (JobId(sp) :> [sp |-> sp, doc |-> EmptyFn, files |-> EmptyFn]) @@ P
init(P, sp) ==
    IF JobId(sp) \in DOMAIN P THEN P
    ELSE (JobId(sp) :> [sp |-> sp, doc |-> EmptyFn, files |-> EmptyFn]) @@ P

\* job.doc[key] = val (initializes the job on first access)
SetDoc(P, sp, key, val) ==
    LET Q == init(P, sp)
    IN  [Q EXCEPT ![JobId(sp)].doc = (key :> val) @@ @]

\* a file written into the job's workspace directory
PutFile(P, sp, name, content) ==
    LET Q == init(P, sp)
    IN  [Q EXCEPT ![JobId(sp)].files = (name :> content) @@ @]

\* job.sp.setdefault(key, val): the job moves to the id of its new state point
setdefault_copy(P, id, key, val) ==
    IF key \in DOMAIN P[id].sp THEN P
    ELSE LET sp2 == (key :> val) @@ P[id].sp
         IN  (JobId(sp2) :> [P[id] EXCEPT !.sp = sp2]) @@ P
setdefault(P, id, key, val) ==
    IF key \in DOMAIN P[id].sp THEN P
    ELSE LET sp2 == (key :> val) @@ P[id].sp
             rest == [i \in DOMAIN P \ {id} |-> P[i]]
         IN  (JobId(sp2) :> [P[id] EXCEPT !.sp = sp2]) @@ rest

\* the body of the parameter study loop, and of the two cells before it
StudyBody_y(P, th) ==
    LET sp == open_job([theta |-> th])
        P1 == SetDoc(P, sp, "t_max", get_t_max(V0, sp.theta))
    IN  SetDoc(P1, sp, "x_max", compute_xy(P1[JobId(sp)].doc.t_max, V0, sp.theta)[2])
StudyBody(P, th) ==
    LET sp == open_job([theta |-> th])
        P1 == SetDoc(P, sp, "t_max", get_t_max(V0, sp.theta))
    IN  SetDoc(P1, sp, "x_max", compute_xy(P1[JobId(sp)].doc.t_max, V0, sp.theta)[1])

----------------------------------------------------------------------------
(* project.py: the FlowProject, its conditions and its operations *)

\* np.linspace(0, t_max, 100)
NPoints == 100
\* run --parallel=4
Parallel == 4

NPZ == "trajectory.npz"

PNG == "trajectory.png"

MP4 == "trajectory.mp4"

isfile(P, id, name) == name \in DOMAIN P[id].files

\* @MyProject.label
trajectory_computed(P, id) == isfile(P, id, NPZ)

\* @MyProject.post(trajectory_computed)
compute_trajectory_nopost(P, id) == FALSE
compute_trajectory_post(P, id) == trajectory_computed(P, id)

\* @MyProject.pre.after(compute_trajectory)
plot_trajectory_nopre(P, id) == TRUE
plot_trajectory_pre(P, id) == compute_trajectory_post(P, id)

\* @MyProject.post.isfile('trajectory.png')
plot_trajectory_post(P, id) == isfile(P, id, PNG)

\* @MyProject.pre.after(compute_trajectory)
animate_pre(P, id) == compute_trajectory_post(P, id)

\* @MyProject.post.isfile('trajectory.mp4')
animate_post_png(P, id) == isfile(P, id, PNG)
animate_post(P, id) == isfile(P, id, MP4)

\* the operations each version of project.py registers, in order
Operations(ver) ==
    IF ver = 0 THEN <<>>
    ELSE IF ver = 1 THEN <<"compute_trajectory">>
    ELSE <<"compute_trajectory", "plot_trajectory", "animate">>

Pre(op, P, id) ==
    CASE op = "compute_trajectory" -> TRUE
      [] op = "plot_trajectory" -> plot_trajectory_pre(P, id)
      [] op = "animate" -> animate_pre(P, id)

Post(op, P, id) ==
    CASE op = "compute_trajectory" -> compute_trajectory_post(P, id)
      [] op = "plot_trajectory" -> plot_trajectory_post(P, id)
      [] op = "animate" -> animate_post(P, id)

\* an operation is eligible for a job when its pre-conditions hold and its
\* post-conditions do not all hold
Eligible(op, P, id) == Pre(op, P, id) /\ ~Post(op, P, id)

\* a job is complete when none of its operations is left to do
Complete(ver, P, id) ==
    \A i \in DOMAIN Operations(ver) : Post(Operations(ver)[i], P, id)

\* status -d --only-incomplete: the jobs listed
StatusIncomplete(ver, P) == {id \in DOMAIN P : ~Complete(ver, P, id)}

\* the command lines of the notebook
CmdF == "run -f velocity 2000"

CmdO == "run -o compute_trajectory"

CmdP == "run --parallel=4"

\* -f velocity 2000
JobFilter(c, P, id) ==
    c = CmdF => ("velocity" \in DOMAIN P[id].sp /\ P[id].sp.velocity = V0)

\* -o compute_trajectory
OpFilter(c, op) == c = CmdO => op = "compute_trajectory"

Workers(c) == IF c = CmdP THEN Parallel ELSE 1

\* the job-operations a pass of the runner selects, as <<job id, index of
\* the operation>>; a job-operation is executed at most once per run
Selected(c, ver, P, done) ==
    {e \in (DOMAIN P) \X (DOMAIN Operations(ver)) :
        /\ JobFilter(c, P, e[1])
        /\ OpFilter(c, Operations(ver)[e[2]])
        /\ Eligible(Operations(ver)[e[2]], P, e[1])
        /\ <<e[1], Operations(ver)[e[2]]>> \notin done}

\* jobs in the order of their ids, operations in the order of the script
Before(a, b) == a[1] < b[1] \/ (a[1] = b[1] /\ a[2] < b[2])

Pending(c, ver, P, done) ==
    LET sel == Selected(c, ver, P, done)
        at(k) == CHOOSE e \in sel : Cardinality({f \in sel : Before(f, e)}) = k - 1
    IN  [k \in 1..Cardinality(sel) |-> <<at(k)[1], Operations(ver)[at(k)[2]]>>]

\* numpy helpers of compute_trajectory
linspace(a, b, n) == [i \in 1..n |-> a + ((b - a) * (i - 1)) \div (n - 1)]

\* compute_xy applied to an array of times: the pair (array of x, array of y)
compute_xy_arr(t, v, th) ==
    <<[i \in DOMAIN t |-> compute_xy_py(t[i], v, th)[1]],
      [i \in DOMAIN t |-> compute_xy_py(t[i], v, th)[2]]>>

\* np.asarray(pair).T: rows become columns
Transpose(M) == [i \in DOMAIN M[1] |-> [r \in DOMAIN M |-> M[r][i]]]

ArrMax(a) == CHOOSE m \in {a[i] : i \in DOMAIN a} : \A i \in DOMAIN a : a[i] <= m

\* compute_trajectory, first half: np.savez(job.fn('trajectory.npz'), ...)
compute_trajectory_savez(P, id) ==
    PutFile(P, P[id].sp, NPZ, [velocity |-> P[id].sp.velocity, theta |-> P[id].sp.theta])

\* what compute_trajectory derives for a velocity and an angle:
\* t = np.linspace(0, get_t_max(v, theta), 100);
\* xy = np.asarray(compute_xy(t, v, theta)).T; t.max() and xy[0].max()
trajectory_doc(v, th) ==
    LET t == linspace(0, get_t_max_v2(v, th), NPoints)
        xyT == Transpose(compute_xy_arr(t, v, th))
    IN  [t_max |-> ArrMax(t), x_max |-> ArrMax(xyT[1])]

\* the same, tabulated once for the state points of the expanded data space
TrajectoryDocs ==
    [v \in {velocities[j] : j \in DOMAIN velocities},
     th \in {StudyThetas[i] : i \in DOMAIN StudyThetas} |-> trajectory_doc(v, th)]

\* compute_trajectory, second half: job.doc.t_max = t.max();
\* job.doc.x_max = xy[0].max()
compute_trajectory_doc(P, id) ==
    LET sp == P[id].sp
        d == IF <<sp.velocity, sp.theta>> \in DOMAIN TrajectoryDocs
             THEN TrajectoryDocs[sp.velocity, sp.theta]
             ELSE trajectory_doc(sp.velocity, sp.theta)
    IN  SetDoc(SetDoc(P, sp, "t_max", d.t_max), sp, "x_max", d.x_max)

\* plot_trajectory: plot(velocity=job.sp.velocity, theta=job.sp.theta); savefig
plot_trajectory_cwd(P, id) ==
    PutFile(PutFile(P, P[id].sp, PNG, [velocity |-> P[id].sp.velocity, theta |-> P[id].sp.theta]),
            P[id].sp, MP4, [velocity |-> P[id].sp.velocity, theta |-> P[id].sp.theta, frames |-> 0])
plot_trajectory(P, id) ==
    PutFile(P, P[id].sp, PNG, [velocity |-> P[id].sp.velocity, theta |-> P[id].sp.theta])

\* animate: animate(** job.sp); anim.save('trajectory.mp4')
animate(P, id) ==
    PutFile(P, P[id].sp, MP4, [velocity |-> P[id].sp.velocity, theta |-> P[id].sp.theta])

\* nothing exported yet
ArchiveEmpty == archive_dir = EmptyFn /\ archive_tar = EmptyFn

\* no project.py yet, nothing running
FlowIdle ==
    /\ script = 0
    /\ cmd = ""
    /\ running = FALSE
    /\ queue = <<>>
    /\ nxt = 1
    /\ inflight = {}
    /\ ran = {}
    /\ snap = EmptyFn

----------------------------------------------------------------------------
(* The notebook, cell by cell, up to the expanded data space *)

Vels == {500 * k : k \in 1..MaxVK}

ThetaGrid == {SliderStep * k : k \in 0..MaxGrid} \cup {Deg2Rad(20), Deg2Rad(45), Deg2Rad(80)}

Init ==
    /\ pc = "experiment"
    /\ in_v \in Vels
    /\ in_theta \in ThetaGrid
    /\ t_max = EmptyFn
    /\ xy = <<>>
    /\ project = EmptyFn
    /\ job = EmptyFn
    /\ todo = <<>>
    /\ thetas = {}
    /\ x_max = 0
    /\ theta_max = None
    /\ FlowIdle
    /\ ArchiveEmpty

\* cells 4-6: t_max and the distance for one velocity and angle
Experiment ==
    /\ pc = "experiment"
    /\ t_max' = [nb |-> get_t_max(in_v, in_theta),
                 py1 |-> get_t_max_v1(in_v, in_theta),
                 py2 |-> get_t_max_v2(in_v, in_theta),
                 py3 |-> get_t_max_v3(in_v, in_theta)]
    /\ xy' = compute_xy(get_t_max(in_v, in_theta), in_v, in_theta)
    /\ pc' = "init_project"
    /\ UNCHANGED <<in_v, in_theta, project, job, todo, thetas, x_max, theta_max, flowvars, archvars>>

\* signac.init_project and the first job handle
InitProject ==
    /\ pc = "init_project"
    /\ project' = EmptyFn
    /\ job' = open_job([theta |-> StudyThetas[1]])
    /\ pc' = "first_job"
    /\ UNCHANGED <<in_v, in_theta, t_max, xy, todo, thetas, x_max, theta_max, flowvars, archvars>>

\* job.doc['t_max'] = ...; job.doc.x_max = ...
FirstJob ==
    /\ pc = "first_job"
    /\ project' = StudyBody(project, job.theta)
    /\ pc' = "savefig"
    /\ UNCHANGED <<in_v, in_theta, t_max, xy, job, todo, thetas, x_max, theta_max, flowvars, archvars>>

\* fig = plot(velocity=2000, theta=80 deg); fig.savefig(job.fn('trajectory.png'))
SaveFig ==
    /\ pc = "savefig"
    /\ project' = PutFile(project, job, "trajectory.png",
                          [velocity |-> V0, theta |-> Deg2Rad(80)])
    /\ todo' = StudyThetas
    /\ pc' = "study"
    /\ UNCHANGED <<in_v, in_theta, t_max, xy, job, thetas, x_max, theta_max, flowvars, archvars>>

\* for theta in 0.4, 0.625, 0.85, 1.3: one iteration
Study ==
    /\ pc = "study"
    /\ todo # <<>>
    /\ project' = StudyBody(project, Head(todo))
    /\ job' = open_job([theta |-> Head(todo)])
    /\ todo' = Tail(todo)
    /\ UNCHANGED <<pc, in_v, in_theta, t_max, xy, thetas, x_max, theta_max, flowvars, archvars>>

\* x_max = 0; theta_max = None; the loop starts over the project's jobs
StudyEnd ==
    /\ pc = "study"
    /\ todo = <<>>
    /\ x_max' = 0
    /\ theta_max' = None
    /\ todo' = DOMAIN project
    /\ pc' = "aggregate"
    /\ UNCHANGED <<in_v, in_theta, t_max, xy, project, job, thetas, flowvars, archvars>>

\* for job in project: if job.doc.x_max > x_max: ...
Aggregate ==
    /\ pc = "aggregate"
    /\ \E id \in todo :
        /\ job' = project[id].sp
        /\ IF project[id].doc.x_max > x_max
           THEN x_max' = project[id].doc.x_max /\ theta_max' = project[id].sp.theta
           ELSE UNCHANGED <<x_max, theta_max>>
        /\ todo' = todo \ {id}
    /\ UNCHANGED <<pc, in_v, in_theta, t_max, xy, project, thetas, flowvars, archvars>>

AggregateEnd ==
    /\ pc = "aggregate"
    /\ todo = {}
    /\ todo' = DOMAIN project
    /\ pc' = "migrate"
    /\ UNCHANGED <<in_v, in_theta, t_max, xy, project, job, thetas, x_max, theta_max, flowvars, archvars>>

\* for job in project: job.sp.setdefault('velocity', 2000)
Migrate ==
    /\ pc = "migrate"
    /\ \E id \in todo :
        /\ project' = setdefault(project, id, "velocity", V0)
        /\ job' = ("velocity" :> V0) @@ project[id].sp
        /\ todo' = todo \ {id}
    /\ UNCHANGED <<pc, in_v, in_theta, t_max, xy, thetas, x_max, theta_max, flowvars, archvars>>

\* velocities = [...]; thetas = {job.sp.theta for job in project}
MigrateEnd ==
    /\ pc = "migrate"
    /\ todo = {}
    /\ thetas' = {project[id].sp.theta : id \in DOMAIN project}
    /\ todo' = <<1, {project[id].sp.theta : id \in DOMAIN project}>>
    /\ pc' = "expand"
    /\ UNCHANGED <<in_v, in_theta, t_max, xy, project, job, x_max, theta_max, flowvars, archvars>>

\* for velocity in velocities: for theta in thetas: open_job(...); job.init()
Expand ==
    /\ pc = "expand"
    /\ todo[1] <= Len(velocities)
    /\ \E th \in todo[2] :
        LET sp == open_job([theta |-> th, velocity |-> velocities[todo[1]]])
        IN  /\ project' = init(project, sp)
            /\ job' = sp
            /\ todo' = IF todo[2] = {th} THEN <<todo[1] + 1, thetas>>
                       ELSE <<todo[1], todo[2] \ {th}>>
    /\ UNCHANGED <<pc, in_v, in_theta, t_max, xy, thetas, x_max, theta_max, flowvars, archvars>>

ExpandEnd ==
    /\ pc = "expand"
    /\ todo[1] > Len(velocities)
    /\ todo' = <<>>
    /\ pc' = "expanded"
    /\ UNCHANGED <<in_v, in_theta, t_max, xy, project, job, thetas, x_max, theta_max, flowvars, archvars>>

Next ==
    \/ Experiment
    \/ InitProject
    \/ FirstJob
    \/ SaveFig
    \/ Study
    \/ StudyEnd
    \/ Aggregate
    \/ AggregateEnd
    \/ Migrate
    \/ MigrateEnd
    \/ Expand
    \/ ExpandEnd

Spec == Init /\ [][Next]_vars

----------------------------------------------------------------------------
(* The workflow: project.py run on the expanded data space *)

RECURSIVE SortedIds(_)
SortedIds(S) ==
    IF S = {} THEN <<>>
    ELSE LET m == CHOOSE x \in S : \A y \in S : x <= y
         IN  <<m>> \o SortedIds(S \ {m})

RECURSIVE FoldStudy(_, _)
FoldStudy(P, ths) ==
    IF ths = <<>> THEN P ELSE FoldStudy(StudyBody(P, Head(ths)), Tail(ths))

RECURSIVE FoldMigrate(_, _)
FoldMigrate(P, ids) ==
    IF ids = <<>> THEN P
    ELSE FoldMigrate(setdefault(P, Head(ids), "velocity", V0), Tail(ids))

RECURSIVE FoldInit(_, _)
FoldInit(P, sps) ==
    IF sps = {} THEN P
    ELSE LET sp == CHOOSE x \in sps : TRUE
         IN  FoldInit(init(P, sp), sps \ {sp})

\* the workspace the notebook has built when the expansion cell has run
DataSpace ==
    LET first == open_job([theta |-> StudyThetas[1]])
        P1 == StudyBody(EmptyFn, first.theta)
        P2 == PutFile(P1, first, PNG, [velocity |-> V0, theta |-> Deg2Rad(80)])
        P3 == FoldStudy(P2, StudyThetas)
        P4 == FoldMigrate(P3, SortedIds(DOMAIN P3))
        ths == {P4[id].sp.theta : id \in DOMAIN P4}
    IN  FoldInit(P4, {[theta |-> th, velocity |-> velocities[j]] :
                          th \in ths, j \in DOMAIN velocities})

\* the largest distance of the parameter study and its angle
StudyBest ==
    CHOOSE id \in DOMAIN DataSpace :
        /\ "x_max" \in DOMAIN DataSpace[id].doc
        /\ \A o \in DOMAIN DataSpace :
               "x_max" \in DOMAIN DataSpace[o].doc =>
                   DataSpace[o].doc.x_max <= DataSpace[id].doc.x_max

\* the notebook of the cells above with the literal inputs of its first
\* experiment (v = 2000, theta = 20 degrees), after the expansion
NbExpanded ==
    /\ pc = "expanded"
    /\ in_v = V0
    /\ in_theta = Deg2Rad(20)
    /\ t_max = [nb |-> get_t_max(V0, Deg2Rad(20)),
                py1 |-> get_t_max_v1(V0, Deg2Rad(20)),
                py2 |-> get_t_max_v2(V0, Deg2Rad(20)),
                py3 |-> get_t_max_v3(V0, Deg2Rad(20))]
    /\ xy = compute_xy(get_t_max(V0, Deg2Rad(20)), V0, Deg2Rad(20))
    /\ job = [theta |-> StudyThetas[Len(StudyThetas)],
              velocity |-> velocities[Len(velocities)]]
    /\ todo = <<>>
    /\ thetas = {StudyThetas[i] : i \in DOMAIN StudyThetas}
    /\ x_max = DataSpace[StudyBest].doc.x_max
    /\ theta_max = DataSpace[StudyBest].sp.theta

FlowInit == NbExpanded /\ project = DataSpace /\ FlowIdle /\ ArchiveEmpty

\* %%writefile project.py: first the version with compute_trajectory only,
\* then the version with plot_trajectory and animate
WriteScript ==
    /\ ~running
    /\ script < 2
    /\ script' = script + 1
    /\ UNCHANGED <<pc, project, nbvars, cmd, running, queue, nxt, inflight, ran, snap, archvars>>

\* !python3 project.py run ...
StartRun(c) ==
    /\ ~running
    /\ script >= 1
    /\ cmd' = c
    /\ running' = TRUE
    /\ queue' = <<>>
    /\ nxt' = 1
    /\ inflight' = {}
    /\ ran' = {}
    /\ snap' = project
    /\ UNCHANGED <<pc, project, nbvars, script, archvars>>

\* the runner collects the eligible job-operations; with none left it exits
NextPass ==
    /\ running
    /\ nxt > Len(queue)
    /\ inflight = {}
    /\ LET q == Pending(cmd, script, project, ran)
       IN  /\ queue' = q
           /\ running' = (q # <<>>)
    /\ nxt' = 1
    /\ UNCHANGED <<pc, project, nbvars, script, cmd, inflight, ran, snap, archvars>>

\* a free worker takes the next job-operation of the pass
Dispatch ==
    /\ running
    /\ nxt <= Len(queue)
    /\ Cardinality(inflight) < Workers(cmd)
    /\ inflight' = inflight \cup {<<queue[nxt][1], queue[nxt][2], 0>>}
    /\ ran' = ran \cup {queue[nxt]}
    /\ nxt' = nxt + 1
    /\ UNCHANGED <<pc, project, nbvars, script, cmd, running, queue, snap, archvars>>

Savez ==
    \E e \in inflight :
        /\ e[2] = "compute_trajectory"
        /\ e[3] = 0
        /\ project' = compute_trajectory_savez(project, e[1])
        /\ inflight' = (inflight \ {e}) \cup {<<e[1], e[2], 1>>}
        /\ UNCHANGED <<pc, nbvars, script, cmd, running, queue, nxt, ran, snap, archvars>>

ComputeDone ==
    \E e \in inflight :
        /\ e[2] = "compute_trajectory"
        /\ e[3] = 1
        /\ project' = compute_trajectory_doc(project, e[1])
        /\ inflight' = inflight \ {e}
        /\ UNCHANGED <<pc, nbvars, script, cmd, running, queue, nxt, ran, snap, archvars>>

PlotDone ==
    \E e \in inflight :
        /\ e[2] = "plot_trajectory"
        /\ project' = plot_trajectory(project, e[1])
        /\ inflight' = inflight \ {e}
        /\ UNCHANGED <<pc, nbvars, script, cmd, running, queue, nxt, ran, snap, archvars>>

AnimateDone ==
    \E e \in inflight :
        /\ e[2] = "animate"
        /\ project' = animate(project, e[1])
        /\ inflight' = inflight \ {e}
        /\ UNCHANGED <<pc, nbvars, script, cmd, running, queue, nxt, ran, snap, archvars>>

RunnerStep == NextPass \/ Dispatch \/ Savez \/ ComputeDone \/ PlotDone \/ AnimateDone

FlowNext ==
    \/ WriteScript
    \/ StartRun(CmdF)
    \/ StartRun(CmdO)
    \/ StartRun(CmdP)
    \/ NextPass
    \/ Dispatch
    \/ Savez
    \/ ComputeDone
    \/ PlotDone
    \/ AnimateDone

SpecFlow == FlowInit /\ [][FlowNext]_vars

\* the runner and its workers keep running until the command exits
FairSpecFlow == SpecFlow /\ WF_vars(RunnerStep)

----------------------------------------------------------------------------
(* Archiving: export_to and import_from *)

\* the body of an operation, run to its end
Body(op, P, id) ==
    CASE op = "compute_trajectory" ->
             compute_trajectory_doc(compute_trajectory_savez(P, id), id)
      [] op = "plot_trajectory" -> plot_trajectory(P, id)
      [] op = "animate" -> animate(P, id)

\* the operations of a pass are per job: each job's directory after the
\* pass, its selected operations applied in the order of the script
Step(op, P, S, id) == IF <<id, op>> \in S THEN Body(op, P, id) ELSE P

PassResult(S, P) ==
    [id \in DOMAIN P |->
        Step("animate",
             Step("plot_trajectory", Step("compute_trajectory", P, S, id), S, id),
             S, id)[id]]

\* what a run command leaves when it exits: the workspace and the
\* job-operations it started
RECURSIVE RunResult(_, _, _, _)
RunResult(c, ver, P, done) ==
    LET q == Pending(c, ver, P, done)
        S == {q[i] : i \in DOMAIN q}
    IN  IF q = <<>> THEN [P |-> P, done |-> done]
        ELSE RunResult(c, ver, PassResult(S, P), done \cup S)

AfterRun(c, ver, P0) ==
    /\ project = RunResult(c, ver, P0, {}).P
    /\ script = ver
    /\ cmd = c
    /\ running = FALSE
    /\ queue = <<>>
    /\ nxt = 1
    /\ inflight = {}
    /\ ran = RunResult(c, ver, P0, {}).done
    /\ snap = P0

\* the notebook's sequence of runs: -f velocity 2000 with the first
\* project.py, then -o compute_trajectory with the second
AfterF == RunResult(CmdF, 1, DataSpace, {}).P

AfterO == RunResult(CmdO, 2, AfterF, {}).P

\* the keys a state point of this project can have
SpKeys == <<"theta", "velocity">>

\* signac_statepoint.json: the state point written as key / value pairs
EncodeSp(sp) ==
    LET Has(k) == k \in DOMAIN sp
        present == SelectSeq(SpKeys, Has)
    IN  [i \in DOMAIN present |-> <<present[i], sp[present[i]]>>]

\* ... and read back
DecodeSp(m) ==
    [k \in {m[i][1] : i \in DOMAIN m} |->
        LET i == CHOOSE j \in DOMAIN m : m[j][1] = k IN m[i][2]]

\* the export path of a job: theta/<theta>/velocity/<velocity>
ExportPath(sp) == <<"theta", sp.theta, "velocity", sp.velocity>>

\* the job directory as it is copied: manifest, document, files
ExportEntry_nodoc(P, id) ==
    [manifest |-> EncodeSp(P[id].sp), doc |-> EmptyFn, files |-> P[id].files]
ExportEntry(P, id) ==
    [manifest |-> EncodeSp(P[id].sp), doc |-> P[id].doc, files |-> P[id].files]

\* shutil.move(src, dst): into dst when dst is an existing directory
MoveTarget(A, path, id) == IF path \in DOMAIN A THEN Append(path, id) ELSE path

\* the workflow has been run as far as the user wanted; nothing exported
ArchInit ==
    /\ NbExpanded
    /\ ArchiveEmpty
    /\ \/ project = DataSpace /\ FlowIdle
       \/ AfterRun(CmdF, 1, DataSpace)
       \/ AfterRun(CmdO, 2, AfterF)
       \/ AfterRun(CmdP, 2, AfterO)

\* exported = project.export_to('archive_dir'): the loop starts
ExportDirStart ==
    /\ pc = "expanded"
    /\ ~running
    /\ todo' = DOMAIN project
    /\ pc' = "export_dir"
    /\ UNCHANGED <<project, in_v, in_theta, t_max, xy, job, thetas, x_max, theta_max, flowvars, archvars>>

\* one job directory copied (shutil.copytree)
ExportDir ==
    /\ pc = "export_dir"
    /\ \E id \in todo :
        /\ archive_dir' = (ExportPath(project[id].sp) :> ExportEntry(project, id)) @@ archive_dir
        /\ todo' = todo \ {id}
    /\ UNCHANGED <<pc, project, in_v, in_theta, t_max, xy, job, thetas, x_max, theta_max, flowvars, archive_tar>>

\* exported = project.export_to('archive.tar.gz'): the loop starts
ExportTarStart ==
    /\ pc = "export_dir"
    /\ todo = {}
    /\ todo' = DOMAIN project
    /\ snap' = project
    /\ pc' = "export_tar"
    /\ UNCHANGED <<project, in_v, in_theta, t_max, xy, job, thetas, x_max, theta_max, script, cmd, running, queue, nxt, inflight, ran, archvars>>

\* one job directory added to the tarball
ExportTar ==
    /\ pc = "export_tar"
    /\ \E id \in todo :
        /\ archive_tar' = (ExportPath(project[id].sp) :> ExportEntry(project, id)) @@ archive_tar
        /\ todo' = todo \ {id}
    /\ UNCHANGED <<pc, project, in_v, in_theta, t_max, xy, job, thetas, x_max, theta_max, flowvars, archive_dir>>

\* exported = project.export_to('archive_dir', copytree=shutil.move)
ExportMoveStart ==
    /\ pc = "export_tar"
    /\ todo = {}
    /\ todo' = DOMAIN project
    /\ pc' = "export_move"
    /\ UNCHANGED <<project, in_v, in_theta, t_max, xy, job, thetas, x_max, theta_max, flowvars, archvars>>

\* one job directory moved out of the workspace
ExportMove ==
    /\ pc = "export_move"
    /\ \E id \in todo :
        /\ archive_dir' = (MoveTarget(archive_dir, ExportPath(project[id].sp), id)
                               :> ExportEntry(project, id)) @@ archive_dir
        /\ project' = [i \in DOMAIN project \ {id} |-> project[i]]
        /\ todo' = todo \ {id}
    /\ UNCHANGED <<pc, in_v, in_theta, t_max, xy, job, thetas, x_max, theta_max, flowvars, archive_tar>>

\* imported = project.import_from('archive.tar.gz'): the loop starts
ImportStart ==
    /\ pc = "export_move"
    /\ todo = {}
    /\ todo' = DOMAIN archive_tar
    /\ pc' = "import"
    /\ UNCHANGED <<project, in_v, in_theta, t_max, xy, job, thetas, x_max, theta_max, flowvars, archvars>>

\* one job directory of the tarball: the job of its manifest is opened; an
\* existing destination is an error, otherwise the directory is copied in
Import ==
    /\ pc = "import"
    /\ \E path \in todo :
        LET entry == archive_tar[path]
            sp == open_job(DecodeSp(entry.manifest))
        IN  IF JobId(sp) \in DOMAIN project
            THEN pc' = "import_error" /\ UNCHANGED <<project, todo>>
            ELSE /\ project' = (JobId(sp) :> [sp |-> sp, doc |-> entry.doc,
                                              files |-> entry.files]) @@ project
                 /\ todo' = todo \ {path}
                 /\ pc' = "import"
    /\ UNCHANGED <<in_v, in_theta, t_max, xy, job, thetas, x_max, theta_max, flowvars, archvars>>

ImportEnd ==
    /\ pc = "import"
    /\ todo = {}
    /\ pc' = "imported"
    /\ UNCHANGED <<project, nbvars, flowvars, archvars>>

ArchNext ==
    \/ ExportDirStart
    \/ ExportDir
    \/ ExportTarStart
    \/ ExportTar
    \/ ExportMoveStart
    \/ ExportMove
    \/ ImportStart
    \/ Import
    \/ ImportEnd

SpecArchive == ArchInit /\ [][ArchNext]_vars

----------------------------------------------------------------------------
(* Removing videos: find workspace -name trajectory.mp4 | head -4 | xargs rm *)

\* what export_to leaves in an empty archive for the workspace P
ArchiveOf(P) ==
    [path \in {ExportPath(P[id].sp) : id \in DOMAIN P} |->
        ExportEntry(P, CHOOSE id \in DOMAIN P : ExportPath(P[id].sp) = path)]

\* ... and what the move-export adds to the archive A
MovedInto(A, P) ==
    [path \in {MoveTarget(A, ExportPath(P[id].sp), id) : id \in DOMAIN P} |->
        ExportEntry(P, CHOOSE id \in DOMAIN P :
                           MoveTarget(A, ExportPath(P[id].sp), id) = path)] @@ A

\* the notebook when import_from has brought back the workspace P0, which
\* the last command c of project.py version ver had left
Imported(P0, ver, c, done) ==
    /\ pc = "imported"
    /\ in_v = V0
    /\ in_theta = Deg2Rad(20)
    /\ t_max = [nb |-> get_t_max(V0, Deg2Rad(20)),
                py1 |-> get_t_max_v1(V0, Deg2Rad(20)),
                py2 |-> get_t_max_v2(V0, Deg2Rad(20)),
                py3 |-> get_t_max_v3(V0, Deg2Rad(20))]
    /\ xy = compute_xy(get_t_max(V0, Deg2Rad(20)), V0, Deg2Rad(20))
    /\ job = [theta |-> StudyThetas[Len(StudyThetas)],
              velocity |-> velocities[Len(velocities)]]
    /\ todo = {}
    /\ thetas = {StudyThetas[i] : i \in DOMAIN StudyThetas}
    /\ x_max = DataSpace[StudyBest].doc.x_max
    /\ theta_max = DataSpace[StudyBest].sp.theta
    /\ project = P0
    /\ script = ver
    /\ cmd = c
    /\ running = FALSE
    /\ queue = <<>>
    /\ nxt = 1
    /\ inflight = {}
    /\ ran = done
    /\ snap = P0
    /\ archive_tar = ArchiveOf(P0)
    /\ archive_dir = MovedInto(ArchiveOf(P0), P0)

AfterP == RunResult(CmdP, 2, AfterO, {}).P

ImportedIdle == Imported(DataSpace, 0, "", {})

ImportedF == Imported(AfterF, 1, CmdF, RunResult(CmdF, 1, DataSpace, {}).done)

ImportedO == Imported(AfterO, 2, CmdO, RunResult(CmdO, 2, AfterF, {}).done)

ImportedP == Imported(AfterP, 2, CmdP, RunResult(CmdP, 2, AfterO, {}).done)

VidInit == ImportedIdle \/ ImportedF \/ ImportedO \/ ImportedP

\* %%writefile project.py: the version for the scheduler, same operations
WriteScheduler ==
    /\ pc = "imported"
    /\ script' = 3
    /\ pc' = "scheduler"
    /\ UNCHANGED <<project, nbvars, cmd, running, queue, nxt, inflight, ran, snap, archvars>>

\* the jobs whose workspace holds the file
Holders(P, name) == {id \in DOMAIN P : isfile(P, id, name)}

\* head -4
HeadCount == 4

\* find ... | head -4: the first four of the files found, in the order of
\* the file system, or all of them when there are fewer
FindHead(P, name) ==
    {S \in SUBSET Holders(P, name) :
        Cardinality(S) = IF Cardinality(Holders(P, name)) < HeadCount
                         THEN Cardinality(Holders(P, name)) ELSE HeadCount}

\* rm <job workspace>/<name>
rm_dir(P, id, name) == [P EXCEPT ![id].files = EmptyFn]
rm(P, id, name) ==
    [P EXCEPT ![id].files = [f \in DOMAIN @ \ {name} |-> @[f]]]

\* find workspace -name trajectory.mp4 | head -4
FindVideos ==
    /\ pc = "scheduler"
    /\ todo' \in FindHead(project, MP4)
    /\ pc' = "remove"
    /\ UNCHANGED <<project, in_v, in_theta, t_max, xy, job, thetas, x_max, theta_max, flowvars, archvars>>

\* xargs rm: the files are unlinked one after the other
RemoveVideo ==
    /\ pc = "remove"
    /\ \E id \in todo :
        /\ project' = rm(project, id, MP4)
        /\ todo' = todo \ {id}
    /\ UNCHANGED <<pc, in_v, in_theta, t_max, xy, job, thetas, x_max, theta_max, flowvars, archvars>>

\* !python3 project.py status ...
Status ==
    /\ pc = "remove"
    /\ todo = {}
    /\ pc' = "status"
    /\ UNCHANGED <<project, nbvars, flowvars, archvars>>

VidNext ==
    \/ WriteScheduler
    \/ FindVideos
    \/ RemoveVideo
    \/ Status

SpecVideos == VidInit /\ [][VidNext]_vars

----------------------------------------------------------------------------
(* The furthest-distance cell, run on the workspace of each stage *)

\* the workspace when the parameter study loop has ended
StudyProject ==
    LET first == open_job([theta |-> StudyThetas[1]])
        P1 == StudyBody(EmptyFn, first.theta)
        P2 == PutFile(P1, first, PNG, [velocity |-> V0, theta |-> Deg2Rad(80)])
    IN  FoldStudy(P2, StudyThetas)

\* the notebook when the parameter study loop has ended
NbStudied ==
    /\ pc = "study"
    /\ in_v = V0
    /\ in_theta = Deg2Rad(20)
    /\ t_max = [nb |-> get_t_max(V0, Deg2Rad(20)),
                py1 |-> get_t_max_v1(V0, Deg2Rad(20)),
                py2 |-> get_t_max_v2(V0, Deg2Rad(20)),
                py3 |-> get_t_max_v3(V0, Deg2Rad(20))]
    /\ xy = compute_xy(get_t_max(V0, Deg2Rad(20)), V0, Deg2Rad(20))
    /\ job = [theta |-> StudyThetas[Len(StudyThetas)]]
    /\ todo = <<>>
    /\ thetas = {}
    /\ x_max = 0
    /\ theta_max = None
    /\ project = StudyProject
    /\ FlowIdle

\* the cell is run where the notebook has it, after the parameter study, or
\* again on the workspace that the expansion and the workflow have left
AggInit ==
    \/ NbStudied /\ ArchiveEmpty
    \/ ArchInit

\* x_max = 0; theta_max = None; for job in project:
AggregateAgain ==
    /\ pc = "expanded"
    /\ ~running
    /\ x_max' = 0
    /\ theta_max' = None
    /\ todo' = DOMAIN project
    /\ pc' = "agg_loop"
    /\ UNCHANGED <<in_v, in_theta, t_max, xy, project, job, thetas, flowvars, archvars>>

\* if job.doc.x_max > x_max: ...; a document without x_max raises
\* AttributeError
AggregateJob ==
    /\ pc = "agg_loop"
    /\ \E id \in todo :
        /\ job' = project[id].sp
        /\ IF "x_max" \notin DOMAIN project[id].doc
           THEN pc' = "agg_attribute_error" /\ UNCHANGED <<x_max, theta_max, todo>>
           ELSE /\ IF project[id].doc.x_max > x_max
                   THEN x_max' = project[id].doc.x_max /\ theta_max' = project[id].sp.theta
                   ELSE UNCHANGED <<x_max, theta_max>>
                /\ todo' = todo \ {id}
                /\ pc' = "agg_loop"
    /\ UNCHANGED <<in_v, in_theta, t_max, xy, project, thetas, flowvars, archvars>>

\* print(... .format(x_max/1000, theta_max*180/np.pi)): None * 180 raises
\* TypeError
AggregatePrint ==
    /\ pc = "agg_loop"
    /\ todo = {}
    /\ pc' = IF theta_max = None THEN "agg_type_error" ELSE "agg_printed"
    /\ UNCHANGED <<project, nbvars, flowvars, archvars>>

AggNext ==
    \/ StudyEnd
    \/ Aggregate
    \/ AggregateEnd
    \/ AggregateAgain
    \/ AggregateJob
    \/ AggregatePrint

SpecAggregate == AggInit /\ [][AggNext]_vars

----------------------------------------------------------------------------
(* Claims about the physics and the construction of the data space (Spec) *)

Abs(n) == IF n < 0 THEN 0 - n ELSE n

Experimented == pc # "experiment"

\* C1: for every v and theta, each definition of get_t_max (notebook and the
\* three versions of project.py) returns t with g * t = 2 * v * sin(theta),
\* up to the rounding of the last digit of t.
C1_TimeOfFlight ==
    Experimented =>
        /\ DOMAIN t_max = {"nb", "py1", "py2", "py3"}
        /\ \A k \in DOMAIN t_max :
            LET r == 2 * in_v * Sin(in_theta) - G100 * t_max[k]
            IN  0 <= r /\ r < G100

C1_Witness ==
    Experimented /\ in_v = 2500 /\ in_theta = 800 /\ t_max.nb > 0 /\ t_max.py3 = t_max.nb

\* C2: the first coordinate of compute_xy at t_max is v * cos(theta) * t_max,
\* and every x_max the parameter study stores is that value for v = 2000 and
\* the job's theta, with t_max = 2 * v * sin(theta) / g.
C2_Range ==
    /\ Experimented => xy[1] = FMul(in_v * Cos(in_theta), t_max.nb)
    /\ \A id \in DOMAIN project :
        "x_max" \in DOMAIN project[id].doc =>
            project[id].doc.x_max =
                FMul(V0 * Cos(project[id].sp.theta),
                     (2 * V0 * Sin(project[id].sp.theta)) \div G100)
    /\ pc = "aggregate" =>
        /\ {project[id].sp.theta : id \in DOMAIN project} =
               {StudyThetas[i] : i \in DOMAIN StudyThetas}
        /\ \A id \in DOMAIN project : "x_max" \in DOMAIN project[id].doc

C2_Witness ==
    /\ pc = "aggregate"
    /\ Cardinality(DOMAIN project) = 4
    /\ \A id \in DOMAIN project : project[id].doc.x_max > 0
    /\ xy[1] > 0

\* C3 as stated: v = 2000, theta = 20 degrees gives t_max of about 23.9 s
\* (within one second).
C3_Original ==
    (Experimented /\ in_v = 2000 /\ in_theta = Deg2Rad(20)) =>
        Abs(t_max.nb - 23900) <= 1000

\* C3 amended: v = 2000, theta = 20 degrees gives t_max of about 139.4 s
\* (2.32 min, the figure the cell prints), within a tenth of a second.
C3_Amended ==
    (Experimented /\ in_v = 2000 /\ in_theta = Deg2Rad(20)) =>
        Abs(t_max.nb - 139400) <= 100

C3_Witness ==
    Experimented /\ in_v = 2000 /\ in_theta = Deg2Rad(20) /\ t_max.nb > 139000

\* C4: for a fixed velocity no angle in [0, 90 degrees] gives a larger range
\* than 45 degrees.
C4_MaxAt45 ==
    (Experimented /\ in_theta <= HalfPi) =>
        xy[1] <= compute_xy(get_t_max(in_v, Deg2Rad(45)), in_v, Deg2Rad(45))[1]

C4_Witness ==
    /\ Experimented
    /\ in_v = 3000
    /\ in_theta = 800
    /\ xy[1] > 0
    /\ xy[1] < compute_xy(get_t_max(in_v, Deg2Rad(45)), in_v, Deg2Rad(45))[1]

AllPairs == {[theta |-> StudyThetas[i], velocity |-> velocities[j]] :
                 i \in DOMAIN StudyThetas, j \in DOMAIN velocities}

\* C8: in the expansion, job.init() on a state point that exists changes
\* nothing (no second job, same document, same files); a step adds at most
\* the one missing job, empty; at the end there is one job per pair and the
\* velocity = 2000 jobs still carry the parameter study's document.
C8_InitIdempotent ==
    /\ [][pc = "expand" /\ pc' = "expand" =>
            /\ \A id \in DOMAIN project :
                   id \in DOMAIN project' /\ project'[id] = project[id]
            /\ JobId(job') \in DOMAIN project => project' = project
            /\ \A id \in DOMAIN project' \ DOMAIN project :
                   /\ id = JobId(job')
                   /\ project'[id] = [sp |-> job', doc |-> EmptyFn, files |-> EmptyFn]]_vars
    /\ [](pc = "expanded" =>
            /\ {project[id].sp : id \in DOMAIN project} = AllPairs
            /\ Cardinality(DOMAIN project) = Cardinality(AllPairs)
            /\ \A id \in DOMAIN project :
                   project[id].sp.velocity = V0 =>
                       DOMAIN project[id].doc = {"t_max", "x_max"})

C8_Witness ==
    /\ pc = "expand"
    /\ todo[1] = 2
    /\ Cardinality(DOMAIN project) = 4
    /\ \A id \in DOMAIN project : project[id].sp.velocity = V0 /\ project[id].doc.x_max > 0

\* the state points of the parameter study, before the migration
StudyPoints == {[theta |-> StudyThetas[i]] : i \in DOMAIN StudyThetas}

\* the same with velocity = 2000
MigratedPoints == {[theta |-> StudyThetas[i], velocity |-> V0] : i \in DOMAIN StudyThetas}

StatePoints(P) == {P[id].sp : id \in DOMAIN P}

\* C13: while the data space is built no two jobs have the same state
\* point, and a job is found under the id open_job derives from its state
\* point, so opening an equal state point gives that job; there are 4 jobs
\* (the four angles) after the parameter study, 4 during and after the
\* migration, and 12, one per (theta, velocity) pair, after the expansion.
C13_UniqueStatePoints ==
    /\ \A a \in DOMAIN project, b \in DOMAIN project :
           project[a].sp = project[b].sp => a = b
    /\ \A id \in DOMAIN project : JobId(open_job(project[id].sp)) = id
    /\ pc = "aggregate" =>
           Cardinality(DOMAIN project) = 4 /\ StatePoints(project) = StudyPoints
    /\ pc = "migrate" =>
           /\ Cardinality(DOMAIN project) = 4
           /\ StatePoints(project) \subseteq StudyPoints \cup MigratedPoints
           /\ todo = {} => StatePoints(project) = MigratedPoints
    /\ (pc = "expand" /\ todo[1] = 1) => StatePoints(project) = MigratedPoints
    /\ pc = "expanded" =>
           Cardinality(DOMAIN project) = 12 /\ StatePoints(project) = AllPairs

C13_Witness ==
    /\ pc = "expanded"
    /\ Cardinality(DOMAIN project) = 12
    /\ \E id \in DOMAIN project :
           project[id].sp = [theta |-> StudyThetas[1], velocity |-> V0]
               /\ PNG \in DOMAIN project[id].files

----------------------------------------------------------------------------
(* Claims about the workflow (SpecFlow, FairSpecFlow) *)

\* the expansion cell of Spec ends in the workspace SpecFlow starts from
DataSpaceReached == pc = "expanded" => project = DataSpace

\* the file whose presence is the post-condition of an operation
FileOf(op) ==
    CASE op = "compute_trajectory" -> NPZ
      [] op = "plot_trajectory" -> PNG
      [] op = "animate" -> MP4

HasFile(P, id, name) == name \in DOMAIN P[id].files

Computing(id) == \E e \in inflight : e[1] = id /\ e[2] = "compute_trajectory"

\* v * cos(theta) * t_max with t_max = 2 * v * sin(theta) / g
Range(v, th) == FMul(v * Cos(th), (2 * v * Sin(th)) \div G100)

\* C5: once compute_trajectory has finished for a job, job.doc.x_max is that
\* job's range v * cos(theta) * t_max for its own velocity and theta.
C5_XMaxAfterCompute ==
    \A id \in DOMAIN project :
        (<<id, "compute_trajectory">> \in ran /\ ~Computing(id)) =>
            /\ "x_max" \in DOMAIN project[id].doc
            /\ project[id].doc.x_max =
                   Range(project[id].sp.velocity, project[id].sp.theta)

\* C6: plot_trajectory and animate are started for a job only when
\* trajectory.npz exists in its workspace and compute_trajectory is not still
\* running for it; so none of them is ever in execution without the file.
C6_PlotAfterCompute ==
    /\ [][\A e \in ran' \ ran :
              e[2] \in {"plot_trajectory", "animate"} =>
                  HasFile(project, e[1], NPZ) /\ ~Computing(e[1])]_vars
    /\ [](\A e \in inflight :
              e[2] \in {"plot_trajectory", "animate"} =>
                  HasFile(project, e[1], NPZ) /\ ~Computing(e[1]))

C6_Witness ==
    /\ running
    /\ cmd = CmdP
    /\ \E e \in inflight, f \in inflight :
        /\ e[2] = "plot_trajectory"
        /\ f[2] = "animate"
        /\ <<e[1], "compute_trajectory">> \in ran
        /\ <<f[1], "compute_trajectory">> \in ran

AllFiles == \A id \in DOMAIN project : {NPZ, PNG, MP4} \subseteq DOMAIN project[id].files

AllDone ==
    /\ ~running
    /\ cmd = CmdP
    /\ AllFiles
    /\ Pending(CmdP, script, project, {}) = <<>>
    /\ StatusIncomplete(script, project) = {}

\* C7: run --progress --parallel=4 on the three-operation project.py
\* terminates with trajectory.npz, trajectory.png and trajectory.mp4 in every
\* job, no operation eligible and no job listed by status --only-incomplete.
C7_RunCompletes == (running /\ cmd = CmdP /\ script = 2) ~> AllDone

C7_Witness ==
    /\ AllDone
    /\ script = 2
    /\ \A id \in DOMAIN project : <<id, "compute_trajectory">> \in ran
    /\ \E id \in DOMAIN project : <<id, "plot_trajectory">> \in ran

\* C10: no job-operation is started while its post-condition holds; run -o
\* compute_trajectory starts compute_trajectory only, only for jobs that had
\* no trajectory.npz when it began, leaves the jobs that had one untouched
\* and creates no trajectory.png and no trajectory.mp4.
C10_NoReexecution ==
    /\ [][\A e \in ran' \ ran : ~HasFile(project, e[1], FileOf(e[2]))]_vars
    /\ [](cmd = CmdO =>
            /\ \A e \in ran :
                   e[2] = "compute_trajectory" /\ ~HasFile(snap, e[1], NPZ)
            /\ \A id \in DOMAIN project :
                   /\ HasFile(project, id, PNG) <=> HasFile(snap, id, PNG)
                   /\ HasFile(project, id, MP4) <=> HasFile(snap, id, MP4)
                   /\ HasFile(snap, id, NPZ) => project[id] = snap[id])

C10_Witness ==
    /\ cmd = CmdO
    /\ ~running
    /\ Cardinality(ran) = 8
    /\ \A id \in DOMAIN project :
           project[id].sp.velocity = V0 =>
               HasFile(snap, id, NPZ) /\ <<id, "compute_trajectory">> \notin ran

\* the workspace P with one file of one job replaced by that file in Q
WithFileOf(P, Q, id, name) ==
    [P EXCEPT ![id].files = (name :> Q[id].files[name]) @@ @]

\* C12: in a run with --parallel=4, plot_trajectory and animate of one job
\* can be in execution at the same time, after that job's
\* compute_trajectory; whichever ends first, each changes nothing but its own
\* file in that job (trajectory.png, trajectory.mp4), a job-operation is
\* handed out once per run, and the run ends in the workspace that running
\* the passes one operation after the other gives.
C12_PlotAnimateConfluent ==
    /\ [][\A e \in inflight \ inflight' :
              e[2] \in {"plot_trajectory", "animate"} =>
                  /\ HasFile(project', e[1], FileOf(e[2]))
                  /\ project' = WithFileOf(project, project', e[1], FileOf(e[2]))]_vars
    /\ [][nxt' = nxt + 1 =>
              /\ queue[nxt] \notin ran
              /\ \A e \in inflight : <<e[1], e[2]>> # queue[nxt]]_vars
    /\ [][(running /\ ~running' /\ cmd = CmdP) =>
              project' = RunResult(CmdP, script, snap, {}).P]_vars

C12_Witness ==
    /\ running
    /\ cmd = CmdP
    /\ \E id \in DOMAIN project :
        /\ <<id, "plot_trajectory", 0>> \in inflight
        /\ <<id, "animate", 0>> \in inflight
        /\ HasFile(project, id, NPZ)
        /\ ~HasFile(project, id, PNG)
        /\ ~HasFile(project, id, MP4)

\* the picture plot_trajectory draws for a job
OwnPlot(P, id) == [velocity |-> P[id].sp.velocity, theta |-> P[id].sp.theta]

\* C15: when the workflow has run to completion, the trajectory.png of every
\* job is the one plot_trajectory draws from that job's own velocity and
\* theta; no job holds a picture made for other parameters.
C15_PlotOfOwnParameters ==
    (AllDone /\ script = 2) =>
        \A id \in DOMAIN project : project[id].files[PNG] = OwnPlot(project, id)

----------------------------------------------------------------------------
(* Claims about removing videos (SpecVideos) *)

EligibleOps(ver, P, id) ==
    {Operations(ver)[i] : i \in {j \in DOMAIN Operations(ver) :
                                     Eligible(Operations(ver)[j], P, id)}}

\* the jobs whose video has been removed so far
Removed == Holders(snap, MP4) \ Holders(project, MP4)

\* the project was fully completed before the videos were removed
WasComplete == DOMAIN snap # {} /\ StatusIncomplete(script, snap) = {}

\* C11: when trajectory.mp4 has been removed from jobs of a fully completed
\* project, the incomplete jobs are exactly those jobs (four of them when
\* the cell has ended); animate is the only eligible operation of each,
\* compute_trajectory and plot_trajectory remain complete for them, and
\* every other job is complete and as it was.
C11_OnlyAnimateAgain ==
    (pc \in {"remove", "status"} /\ WasComplete) =>
        /\ StatusIncomplete(script, project) = Removed
        /\ pc = "status" => Cardinality(Removed) = HeadCount
        /\ \A id \in Removed :
               /\ EligibleOps(script, project, id) = {"animate"}
               /\ Post("compute_trajectory", project, id)
               /\ Post("plot_trajectory", project, id)
               /\ project[id].doc = snap[id].doc
        /\ \A id \in DOMAIN project \ Removed :
               /\ project[id] = snap[id]
               /\ Complete(script, project, id)
               /\ EligibleOps(script, project, id) = {}
        /\ DOMAIN project = DOMAIN snap

C11_Witness ==
    /\ pc = "status"
    /\ WasComplete
    /\ script = 3
    /\ Cardinality(StatusIncomplete(script, project)) = HeadCount
    /\ Cardinality(Holders(project, MP4)) = Cardinality(AllPairs) - HeadCount

----------------------------------------------------------------------------
(* Claims about the furthest-distance cell (SpecAggregate) *)

\* the loop over the jobs has ended
AggregateOver ==
    \/ pc = "migrate"
    \/ pc = "agg_loop" /\ todo = {}
    \/ pc \in {"agg_printed", "agg_type_error"}

EveryJobHasXMax == \A id \in DOMAIN project : "x_max" \in DOMAIN project[id].doc

\* C14: when the loop over the jobs has ended on a project in which every
\* job's document has x_max, x_max is the largest job.doc.x_max, theta_max
\* is the theta of a job that has it, and theta_max is not None.
C14_AggregateMax ==
    (AggregateOver /\ EveryJobHasXMax) =>
        /\ \A id \in DOMAIN project : project[id].doc.x_max <= x_max
        /\ theta_max # None
        /\ \E id \in DOMAIN project :
               project[id].doc.x_max = x_max /\ project[id].sp.theta = theta_max

\* where the cell stands in the notebook the loop does find the maximum
C14_AfterStudy ==
    pc = "migrate" =>
        /\ theta_max # None
        /\ \A id \in DOMAIN project : project[id].doc.x_max <= x_max
        /\ \E id \in DOMAIN project :
               project[id].doc.x_max = x_max /\ project[id].sp.theta = theta_max

----------------------------------------------------------------------------
(* Claims about archiving (SpecArchive) *)

====
